---- MODULE Spec2Model ----
(***************************************************************************)
(* Model of device.go of go-nvml: the name-keyed property dispatch         *)
(* (intProperty, textProperty), Device construction (NewDevice) and        *)
(* device enumeration (GetAllGPUs, getAllDevices).                         *)
(*                                                                         *)
(* The native library (NVML) is the environment: every native call's      *)
(* outcome (status, value written, buffer content left) is an input of     *)
(* the operation that makes the call.  Every operator that models a Go     *)
(* function returns its Go results together with `events`, the ordered     *)
(* list of native-layer events (malloc, accessor call, free) it caused.    *)
(***************************************************************************)
EXTENDS Integers, Sequences, FiniteSets, TLC

(* ---------------------------- bounds ----------------------------------- *)
\* Largest device count the native library reports.
MaxDevices == 3
\* Bytes are 0..MaxByte; 0 is the C string terminator.
MaxByte == 2
\* Largest value a native integer accessor writes.
MaxValue == 2
\* Buffer sizes of nvml.h, scaled down; they stay heterogeneous.
NVML_DEVICE_NAME_BUFFER_SIZE == 2
NVML_DEVICE_SERIAL_BUFFER_SIZE == 1
NVML_DEVICE_UUID_BUFFER_SIZE == 3
NVML_DEVICE_INFOROM_VERSION_BUFFER_SIZE == 1
NVML_DEVICE_VBIOS_VERSION_BUFFER_SIZE == 2

(* ---------------------------- native layer ----------------------------- *)
Nil == "nil"

NVML_SUCCESS == "NVML_SUCCESS"
Statuses == {NVML_SUCCESS, "NVML_ERROR_NOT_SUPPORTED", "NVML_ERROR_GPU_IS_LOST"}

EXIT_SUCCESS == "EXIT_SUCCESS"
EXIT_FAILURE == "EXIT_FAILURE"

Bytes == 0..MaxByte

\* nvmlErrorString of the native library: the message of a status code.
nvmlErrorString(cerror) ==
    CASE cerror = "NVML_ERROR_NOT_SUPPORTED" -> "Not Supported"
      [] cerror = "NVML_ERROR_GPU_IS_LOST" -> "GPU is lost"
      [] OTHER -> Nil

\* Device.Error: the Go error of a native status.
Error(cerror) ==
    IF cerror = NVML_SUCCESS THEN Nil
    ELSE IF nvmlErrorString(cerror) = Nil THEN "Error not found in nvml.h"
    ELSE nvmlErrorString(cerror)

Event(kind, f, handle, status) ==
    [kind |-> kind, f |-> f, handle |-> handle, status |-> status]

(* ---------------------------- registries ------------------------------- *)
intpropfunctions ==
    [Index |-> "nvmlDeviceGetIndex",
     MinorNumber |-> "nvmlDeviceGetMinorNumber",
     InforomConfigurationChecksum |-> "nvmlDeviceGetInforomConfigurationChecksum",
     MaxPCIeLinkGeneration |-> "nvmlDeviceGetMaxPcieLinkGeneration",
     MaxPCIeLinkWidth |-> "nvmlDeviceGetMaxPcieLinkWidth",
     CurrPCIeLinkGeneration |-> "nvmlDeviceGetCurrPcieLinkGeneration",
     CurrPCIeLinkWidth |-> "nvmlDeviceGetCurrPcieLinkWidth",
     PCIeReplayCounter |-> "nvmlDeviceGetPcieReplayCounter",
     FanSpeed |-> "nvmlDeviceGetFanSpeed",
     PowerManagementLimit |-> "nvmlDeviceGetPowerManagementLimit",
     PowerManagementDefaultLimit |-> "nvmlDeviceGetPowerManagementDefaultLimit",
     PowerUsage |-> "nvmlDeviceGetPowerUsage",
     EnforcedPowerLimit |-> "nvmlDeviceGetEnforcedPowerLimit",
     BoardId |-> "nvmlDeviceGetBoardId",
     MultiGpuBoard |-> "nvmlDeviceGetMultiGpuBoard"]

textpropfunctions ==
    [Name |-> [f |-> "nvmlDeviceGetName", length |-> NVML_DEVICE_NAME_BUFFER_SIZE],
     Serial |-> [f |-> "nvmlDeviceGetSerial", length |-> NVML_DEVICE_SERIAL_BUFFER_SIZE],
     UUID |-> [f |-> "nvmlDeviceGetUUID", length |-> NVML_DEVICE_UUID_BUFFER_SIZE],
     InforomImageVersion |-> [f |-> "nvmlDeviceGetInforomImageVersion",
                              length |-> NVML_DEVICE_INFOROM_VERSION_BUFFER_SIZE],
     VbiosVersion |-> [f |-> "nvmlDeviceGetVbiosVersion",
                       length |-> NVML_DEVICE_VBIOS_VERSION_BUFFER_SIZE]]

(* ---------------------------- helpers ---------------------------------- *)
\* genCStringBuffer: a fresh zeroed C buffer of `size` bytes.
genCStringBuffer(size) == [i \in 1..size |-> 0]

\* strndup: the bytes of cs before the first terminator, at most len of them.
RECURSIVE strndup(_, _)
strndup(cs, len) ==
    IF len = 0 \/ cs = <<>> \/ Head(cs) = 0 THEN <<>>
    ELSE <<Head(cs)>> \o strndup(Tail(cs), len - 1)

\* bridge_get_int_property: calls the accessor; the native status collapses
\* to a process exit status, the value is written to the out slot.
bridge_get_int_property(f, nvmldevice, cuintproperty, nat) ==
    IF nat.status = NVML_SUCCESS
    THEN [result |-> EXIT_SUCCESS, out |-> nat.value]
    ELSE [result |-> EXIT_FAILURE, out |-> cuintproperty]

\* bridge_get_text_property: calls the accessor with (buf, length); the
\* accessor leaves nat.buf in the buffer.
bridge_get_text_property(f, nvmldevice, buf, length, nat) ==
    IF nat.status = NVML_SUCCESS
    THEN [result |-> EXIT_SUCCESS, buf |-> nat.buf]
    ELSE [result |-> EXIT_FAILURE, buf |-> nat.buf]

(* ---------------------------- dispatchers ------------------------------ *)
\* Device.intProperty(property); nat is the native accessor's outcome.
intProperty(gpu, property, nat) ==
    IF property \notin DOMAIN intpropfunctions
    THEN [val |-> 0, err |-> "property not found", events |-> <<>>]
    ELSE LET ipf == intpropfunctions[property]
             r == bridge_get_int_property(ipf, gpu.nvmldevice, 0, nat)
             ev == <<Event("call", ipf, gpu.nvmldevice, nat.status)>>
         IN IF r.result # EXIT_SUCCESS
            THEN [val |-> 0, err |-> "getintProperty bridge returned error",
                  events |-> ev]
            ELSE [val |-> r.out, err |-> Nil, events |-> ev]

\* Mutant of textPropertyBody: the decoded string is returned without the
\* test for an empty result.
textPropertyBody_noEmptyCheck(gpu, tpf, nat) ==
    LET buf == genCStringBuffer(tpf.length)
        r == bridge_get_text_property(tpf.f, gpu.nvmldevice, buf, tpf.length, nat)
        ev == <<Event("malloc", "genCStringBuffer", gpu.nvmldevice, ""),
                Event("call", tpf.f, gpu.nvmldevice, nat.status)>>
        propvalue == strndup(r.buf, tpf.length)
    IN IF r.result # EXIT_SUCCESS
       THEN [val |-> <<>>, err |-> "gettextProperty bridge returned error",
             events |-> ev]
       ELSE [val |-> propvalue, err |-> Nil, events |-> ev]

\* The body of Device.textProperty after the registry lookup succeeded,
\* without the deferred free.
textPropertyBody(gpu, tpf, nat) ==
    LET buf == genCStringBuffer(tpf.length)
        r == bridge_get_text_property(tpf.f, gpu.nvmldevice, buf, tpf.length, nat)
        ev == <<Event("malloc", "genCStringBuffer", gpu.nvmldevice, ""),
                Event("call", tpf.f, gpu.nvmldevice, nat.status)>>
        propvalue == strndup(r.buf, tpf.length)
    IN IF r.result # EXIT_SUCCESS
       THEN [val |-> <<>>, err |-> "gettextProperty bridge returned error",
             events |-> ev]
       ELSE IF Len(propvalue) > 0
            THEN [val |-> propvalue, err |-> Nil, events |-> ev]
            ELSE [val |-> <<>>, err |-> "textProperty returned empty string",
                  events |-> ev]

\* Mutant of textProperty: the buffer is freed by hand after the decode, so
\* the early return on an accessor failure leaks it.
textProperty_leak(gpu, property, nat) ==
    IF property \notin DOMAIN textpropfunctions
    THEN [val |-> <<>>, err |-> "property not found", events |-> <<>>]
    ELSE LET tpf == textpropfunctions[property]
             r == textPropertyBody(gpu, tpf, nat)
         IN IF nat.status # NVML_SUCCESS THEN r
            ELSE [r EXCEPT !.events = Append(@, Event("free", "free", gpu.nvmldevice, ""))]

\* Mutant of textProperty: the buffer is allocated (and its free deferred)
\* before the registry lookup.
textProperty_allocFirst(gpu, property, nat) ==
    LET free == Event("free", "free", gpu.nvmldevice, "")
    IN IF property \notin DOMAIN textpropfunctions
       THEN [val |-> <<>>, err |-> "property not found",
             events |-> <<Event("malloc", "genCStringBuffer", gpu.nvmldevice, ""), free>>]
       ELSE LET r == textPropertyBody(gpu, textpropfunctions[property], nat)
            IN [r EXCEPT !.events = Append(@, free)]

\* Device.textProperty(property); nat is the native accessor's outcome.
textProperty(gpu, property, nat) ==
    IF property \notin DOMAIN textpropfunctions
    THEN [val |-> <<>>, err |-> "property not found", events |-> <<>>]
    ELSE LET tpf == textpropfunctions[property]
             r == textPropertyBody(gpu, tpf, nat)
         IN \* defer C.free(buf): runs on every return after the allocation
            [r EXCEPT !.events = Append(@, Event("free", "free", gpu.nvmldevice, ""))]

Index(gpu, nat) == intProperty(gpu, "Index", nat)
\* Mutant of Name: the cached field is returned once it is populated.
Name_cached(gpu, nat) ==
    IF gpu.name # <<>> THEN [val |-> gpu.name, err |-> Nil, events |-> <<>>]
    ELSE textProperty(gpu, "Name", nat)

Name(gpu, nat) == textProperty(gpu, "Name", nat)
UUID(gpu, nat) == textProperty(gpu, "UUID", nat)

\* Device.MultiGpuBoard
MultiGpuBoard(gpu, nat) ==
    LET r == intProperty(gpu, "MultiGpuBoard", nat)
    IN IF r.val = 0
       THEN [val |-> TRUE, err |-> r.err, events |-> r.events]
       ELSE [val |-> FALSE, err |-> r.err, events |-> r.events]

(* ---------------------------- construction ---------------------------- *)
\* Body(x) for x the value of e, with e evaluated once (a local variable
\* assigned from a call).
With(e, Body(_)) == CHOOSE y \in {Body(x) : x \in {e}} : TRUE

\* Mutant of NewDevice: the error of the Name resolution is not tested.
NewDevice_nameUnchecked(cdevice, env) ==
    LET device == [nvmldevice |-> cdevice, index |-> 0, pcibus |-> <<>>,
                   name |-> <<>>, uuid |-> <<>>]
    IN With(UUID(device, env.UUID), LAMBDA u :
       IF u.err # Nil
       THEN [dev |-> Nil, err |-> "Cannot retrieve UUID property", events |-> u.events]
       ELSE LET device1 == [device EXCEPT !.uuid = u.val]
            IN With(Name(device1, env.Name), LAMBDA n :
               LET device2 == [device1 EXCEPT !.name = n.val]
               IN With(Index(device2, env.Index), LAMBDA x :
                  IF x.err # Nil
                  THEN [dev |-> Nil, err |-> "Cannot retrieve Index property",
                        events |-> u.events \o n.events \o x.events]
                  ELSE [dev |-> [device2 EXCEPT !.index = x.val], err |-> Nil,
                        events |-> u.events \o n.events \o x.events])))

\* NewDevice(cdevice); env holds the native outcomes of the UUID, Name and
\* Index accessors for this handle.
NewDevice(cdevice, env) ==
    LET device == [nvmldevice |-> cdevice, index |-> 0, pcibus |-> <<>>,
                   name |-> <<>>, uuid |-> <<>>]  \* Device{nvmldevice: cdevice}
    IN With(UUID(device, env.UUID), LAMBDA u :
       IF u.err # Nil
       THEN [dev |-> Nil, err |-> "Cannot retrieve UUID property", events |-> u.events]
       ELSE LET device1 == [device EXCEPT !.uuid = u.val]
            IN With(Name(device1, env.Name), LAMBDA n :
               IF n.err # Nil
               THEN [dev |-> Nil, err |-> "Cannot retrieve Name property",
                     events |-> u.events \o n.events]
               ELSE LET device2 == [device1 EXCEPT !.name = n.val]
                    IN With(Index(device2, env.Index), LAMBDA x :
                       IF x.err # Nil
                       THEN [dev |-> Nil, err |-> "Cannot retrieve Index property",
                             events |-> u.events \o n.events \o x.events]
                       ELSE [dev |-> [device2 EXCEPT !.index = x.val], err |-> Nil,
                             events |-> u.events \o n.events \o x.events])))

(* ---------------------------- enumeration ----------------------------- *)
\* nvmlDeviceGetCount; cnt is the native outcome [status, count].
nvmlDeviceGetCount(cnt) ==
    LET ev == <<Event("call", "nvmlDeviceGetCount", -1, cnt.status)>>
    IN IF cnt.status # NVML_SUCCESS
       THEN [val |-> -1, err |-> "nvmlDeviceGetCount failed", events |-> ev]
       ELSE [val |-> cnt.count, err |-> Nil, events |-> ev]

\* The for loop of getAllDevices from index i on: the handles appended, the
\* error returned from inside the loop (Nil when the loop runs to its end) and
\* the native calls made.  hstat[i] is the native status of the handle lookup
\* for index i, and the handle obtained for index i is i.
RECURSIVE getAllDevicesLoop(_, _, _)
getAllDevicesLoop(i, device_count, hstat) ==
    IF ~(i < device_count)
    THEN [devices |-> <<>>, err |-> Nil, events |-> <<>>]
    ELSE LET ev == Event("call", "nvmlDeviceGetHandleByIndex", i, hstat[i])
         IN IF hstat[i] # NVML_SUCCESS
            THEN [devices |-> <<>>,
                  err |-> "nvmlDeviceGetHandleByIndex returns error",
                  events |-> <<ev>>]
            ELSE With(getAllDevicesLoop(i + 1, device_count, hstat), LAMBDA rest :
                      [devices |-> <<i>> \o rest.devices, err |-> rest.err,
                       events |-> <<ev>> \o rest.events])

\* getAllDevices; fatal is log.Fatal (the process exits).
getAllDevices(cnt, hstat) ==
    With(nvmlDeviceGetCount(cnt), LAMBDA c :
    IF c.err # Nil
    THEN [devices |-> <<>>, err |-> c.err, events |-> c.events, fatal |-> TRUE]
    ELSE With(getAllDevicesLoop(0, c.val, hstat), LAMBDA l :
         IF l.err # Nil
         THEN [devices |-> l.devices, err |-> l.err,
               events |-> c.events \o l.events, fatal |-> FALSE]
         ELSE IF Len(l.devices) = 0
              THEN [devices |-> l.devices, err |-> "No devices found",
                    events |-> c.events \o l.events, fatal |-> FALSE]
              ELSE [devices |-> l.devices, err |-> Nil,
                    events |-> c.events \o l.events, fatal |-> FALSE]))

\* Mutant of GetAllGPUsLoop: a failed construction skips the handle
\* (continue) instead of ending the loop (break).
RECURSIVE GetAllGPUsLoop_continue(_, _)
GetAllGPUsLoop_continue(cdevices, envs) ==
    IF cdevices = <<>>
    THEN [devices |-> <<>>, events |-> <<>>]
    ELSE With(NewDevice(Head(cdevices), envs[Head(cdevices)]), LAMBDA d :
         With(GetAllGPUsLoop_continue(Tail(cdevices), envs), LAMBDA rest :
              IF d.err # Nil
              THEN [devices |-> rest.devices, events |-> d.events \o rest.events]
              ELSE [devices |-> <<d.dev>> \o rest.devices,
                    events |-> d.events \o rest.events]))

\* The range loop of GetAllGPUs over cdevices: the Devices appended and the
\* native events caused; envs[h] holds the native outcomes of the identity
\* accessors for handle h.
RECURSIVE GetAllGPUsLoop(_, _)
GetAllGPUsLoop(cdevices, envs) ==
    IF cdevices = <<>>
    THEN [devices |-> <<>>, events |-> <<>>]
    ELSE With(NewDevice(Head(cdevices), envs[Head(cdevices)]), LAMBDA d :
         IF d.err # Nil
         THEN [devices |-> <<>>, events |-> d.events]   \* break
         ELSE With(GetAllGPUsLoop(Tail(cdevices), envs), LAMBDA rest :
                   [devices |-> <<d.dev>> \o rest.devices,
                    events |-> d.events \o rest.events]))

\* Mutant of GetAllGPUs: on a handle lookup error the handles obtained so
\* far are still turned into Devices and returned with the error.
GetAllGPUs_partial(cnt, hstat, envs) ==
    With(getAllDevices(cnt, hstat), LAMBDA c :
    IF c.fatal
    THEN [devices |-> <<>>, err |-> c.err, events |-> c.events, fatal |-> TRUE]
    ELSE With(GetAllGPUsLoop(c.devices, envs), LAMBDA l :
              [devices |-> l.devices, err |-> c.err,
               events |-> c.events \o l.events, fatal |-> FALSE]))

\* GetAllGPUs
GetAllGPUs(cnt, hstat, envs) ==
    With(getAllDevices(cnt, hstat), LAMBDA c :
    IF c.fatal
    THEN [devices |-> <<>>, err |-> c.err, events |-> c.events, fatal |-> TRUE]
    ELSE IF c.err # Nil
         THEN [devices |-> <<>>, err |-> c.err, events |-> c.events, fatal |-> FALSE]
         ELSE With(GetAllGPUsLoop(c.devices, envs), LAMBDA l :
                   [devices |-> l.devices, err |-> Nil,
                    events |-> c.events \o l.events, fatal |-> FALSE]))

(* ---------------------------- C heap ----------------------------------- *)
\* The effect of malloc and free events on the C heap: the number of buffers
\* allocated and not yet freed, and whether a free found nothing to free.
RECURSIVE Replay(_, _)
Replay(h, events) ==
    IF events = <<>> THEN h
    ELSE LET e == Head(events)
             h2 == CASE e.kind = "malloc" -> [h EXCEPT !.outstanding = @ + 1]
                     [] e.kind = "free" ->
                            IF h.outstanding = 0 THEN [h EXCEPT !.doubleFree = TRUE]
                            ELSE [h EXCEPT !.outstanding = @ - 1]
                     [] OTHER -> h
         IN Replay(h2, Tail(events))

(* ---------------------------- inputs ----------------------------------- *)
Handles == 0..(MaxDevices - 1)

\* Outcomes of a native integer accessor.
IntOutcomes == [status : Statuses, value : 0..MaxValue]

Fill(n, b) == [i \in 1..n |-> b]

\* Outcomes of a native text accessor called with a buffer of n bytes: on
\* success any content, on failure the buffer untouched or filled with garbage.
TextOutcomes(n) ==
    [status : {NVML_SUCCESS}, buf : [1..n -> Bytes]]
    \cup [status : Statuses \ {NVML_SUCCESS}, buf : {Fill(n, 0), Fill(n, MaxByte)}]

\* Outcomes of the identity accessors used when constructing devices: a
\* failure, an untouched (empty) buffer, a buffer with no terminator.
TextShapes(property) ==
    LET n == textpropfunctions[property].length
    IN {[status |-> "NVML_ERROR_GPU_IS_LOST", buf |-> Fill(n, 0)]}
       \cup {[status |-> NVML_SUCCESS, buf |-> Fill(n, b)] : b \in Bytes}

IntShapes ==
    {[status |-> "NVML_ERROR_NOT_SUPPORTED", value |-> 0]}
    \cup {[status |-> NVML_SUCCESS, value |-> v] : v \in 0..MaxValue}

NewDeviceEnvs == [UUID : TextShapes("UUID"), Name : TextShapes("Name"), Index : IntShapes]

\* What the native library answers for index h during an enumeration: the
\* handle lookup fails, or it yields a handle whose accessors behave as named.
ProfileNames == {"lookupFails", "healthy", "nameEmpty", "indexFails"}

Healthy(h) ==
    [UUID |-> [status |-> NVML_SUCCESS,
               buf |-> Fill(textpropfunctions["UUID"].length, 1)],
     Name |-> [status |-> NVML_SUCCESS,
               buf |-> Fill(textpropfunctions["Name"].length, 1)],
     Index |-> [status |-> NVML_SUCCESS, value |-> h]]

ProfileEnv(profile, h) ==
    CASE profile = "nameEmpty" ->
             [Healthy(h) EXCEPT !.Name.buf = Fill(textpropfunctions["Name"].length, 0)]
      [] profile = "indexFails" ->
             [Healthy(h) EXCEPT !.Index.status = "NVML_ERROR_NOT_SUPPORTED"]
      [] OTHER -> Healthy(h)

CountOutcomes ==
    {[status |-> NVML_SUCCESS, count |-> c] : c \in 0..MaxDevices}
    \cup {[status |-> "NVML_ERROR_GPU_IS_LOST", count |-> 0]}

\* The native status of nvmlDeviceGetHandleByIndex under a profile.
HandleStatus(profile) ==
    IF profile = "lookupFails" THEN "NVML_ERROR_GPU_IS_LOST" ELSE NVML_SUCCESS

IntPropertyInputs == DOMAIN intpropfunctions \cup {"Name", "NoSuchProperty", ""}
TextPropertyInputs == DOMAIN textpropfunctions \cup {"Index", "NoSuchProperty", ""}

(* ---------------------------- state ------------------------------------ *)
VARIABLES
    held,    \* the Devices the caller holds (result of the last constructor)
    op,      \* the last operation called
    args,    \* its inputs, the native outcomes included
    ret,     \* its results
    trace,   \* the native-layer events it caused, in order
    heap,    \* C heap: buffers outstanding, and whether a free was invalid
    exited   \* the process was terminated by log.Fatal

vars == <<held, op, args, ret, trace, heap, exited>>

Init ==
    /\ held = <<>>
    /\ op = "init"
    /\ args = [none |-> TRUE]
    /\ ret = [err |-> Nil]
    /\ trace = <<>>
    /\ heap = [outstanding |-> 0, doubleFree |-> FALSE]
    /\ exited = FALSE

CallGetAllGPUs ==
    /\ ~exited
    /\ \E cnt \in CountOutcomes :
       \E prof \in [0..(cnt.count - 1) -> ProfileNames] :
       \E hstat \in {[h \in DOMAIN prof |-> HandleStatus(prof[h])]},
          envs \in {[h \in DOMAIN prof |-> ProfileEnv(prof[h], h)]} :
       \E r \in {GetAllGPUs(cnt, hstat, envs)} :
             /\ op' = "GetAllGPUs"
             /\ args' = [cnt |-> cnt, hstat |-> hstat, envs |-> envs]
             /\ ret' = [devices |-> r.devices, err |-> r.err, fatal |-> r.fatal]
             /\ trace' = r.events
             /\ heap' = Replay(heap, r.events)
             /\ held' = r.devices
             /\ exited' = r.fatal

CallNewDevice ==
    /\ ~exited
    /\ \E cdevice \in Handles, env \in NewDeviceEnvs :
       \E r \in {NewDevice(cdevice, env)} :
             /\ op' = "NewDevice"
             /\ args' = [cdevice |-> cdevice, env |-> env]
             /\ ret' = [dev |-> r.dev, err |-> r.err]
             /\ trace' = r.events
             /\ heap' = Replay(heap, r.events)
             /\ held' = IF r.err = Nil THEN <<r.dev>> ELSE <<>>
             /\ exited' = exited

\* A method call on a held Device: name of the operation, its inputs, result.
Method(name, a, result) ==
    \E r \in {result} :
       /\ op' = name
       /\ args' = a
       /\ ret' = [val |-> r.val, err |-> r.err]
       /\ trace' = r.events
       /\ heap' = Replay(heap, r.events)
       /\ UNCHANGED <<held, exited>>

CallIntProperty ==
    /\ ~exited
    /\ \E i \in 1..Len(held), property \in IntPropertyInputs, nat \in IntOutcomes :
          Method("intProperty", [i |-> i, property |-> property, nat |-> nat],
                 intProperty(held[i], property, nat))

CallTextProperty ==
    /\ ~exited
    /\ \E i \in 1..Len(held), property \in TextPropertyInputs :
       \E nat \in TextOutcomes(IF property \in DOMAIN textpropfunctions
                               THEN textpropfunctions[property].length ELSE 1) :
          Method("textProperty", [i |-> i, property |-> property, nat |-> nat],
                 textProperty(held[i], property, nat))

CallMultiGpuBoard ==
    /\ ~exited
    /\ \E i \in 1..Len(held), nat \in IntOutcomes :
          Method("MultiGpuBoard", [i |-> i, property |-> "MultiGpuBoard", nat |-> nat],
                 MultiGpuBoard(held[i], nat))

CallIndex ==
    /\ ~exited
    /\ \E i \in 1..Len(held), nat \in IntShapes :
          Method("Index", [i |-> i, property |-> "Index", nat |-> nat],
                 Index(held[i], nat))

CallName ==
    /\ ~exited
    /\ \E i \in 1..Len(held), nat \in TextShapes("Name") :
          Method("Name", [i |-> i, property |-> "Name", nat |-> nat],
                 Name(held[i], nat))

CallUUID ==
    /\ ~exited
    /\ \E i \in 1..Len(held), nat \in TextShapes("UUID") :
          Method("UUID", [i |-> i, property |-> "UUID", nat |-> nat],
                 UUID(held[i], nat))

\* Enumeration, construction and the identity accessors of the Devices held.
Next ==
    \/ CallGetAllGPUs
    \/ CallNewDevice
    \/ CallIndex
    \/ CallName
    \/ CallUUID

Spec == Init /\ [][Next]_vars

\* The property dispatchers, called on a Device that was constructed from a
\* handle whose identity accessors succeeded.
InitProp ==
    /\ \E cdevice \in {0, MaxDevices - 1} : held = <<NewDevice(cdevice, Healthy(cdevice)).dev>>
    /\ op = "init"
    /\ args = [none |-> TRUE]
    /\ ret = [err |-> Nil]
    /\ trace = <<>>
    /\ heap = [outstanding |-> 0, doubleFree |-> FALSE]
    /\ exited = FALSE

NextProp ==
    \/ CallIntProperty
    \/ CallTextProperty
    \/ CallMultiGpuBoard

SpecProp == InitProp /\ [][NextProp]_vars

(* ======================================================================= *)
(* Properties                                                              *)
(* ======================================================================= *)
\* The native calls of a trace, and the native functions they name.
CallEvents(t) == SelectSeq(t, LAMBDA e : e.kind = "call")
Fns(t) == [j \in 1..Len(t) |-> t[j].f]
Count(t, kind) == Len(SelectSeq(t, LAMBDA e : e.kind = kind))

\* The bytes of a buffer before its first terminator.
Decoded(buf) ==
    LET stop == {j \in 1..Len(buf) : buf[j] = 0}
        end == IF stop = {} THEN Len(buf)
               ELSE (CHOOSE j \in stop : \A k \in stop : j <= k) - 1
    IN SubSeq(buf, 1, end)

\* A native text (integer) accessor outcome that resolves to a value.
TextResolves(o) == o.status = NVML_SUCCESS /\ o.buf[1] # 0
IntResolves(o) == o.status = NVML_SUCCESS
Constructs(env) ==
    TextResolves(env.UUID) /\ TextResolves(env.Name) /\ IntResolves(env.Index)

\* The Device that the native outcomes env determine for handle h.
ExpectedDevice(h, env) ==
    [nvmldevice |-> h, index |-> env.Index.value, pcibus |-> <<>>,
     name |-> Decoded(env.Name.buf), uuid |-> Decoded(env.UUID.buf)]

IdentityAccessors == {"nvmlDeviceGetUUID", "nvmlDeviceGetName", "nvmlDeviceGetIndex"}

Enumerated == op = "GetAllGPUs" /\ ~ret.fatal

(* ------------------------------- C1 ------------------------------------ *)
LookupFails ==
    Enumerated /\ \E i \in DOMAIN args.hstat : args.hstat[i] # NVML_SUCCESS

FirstFailedLookup ==
    CHOOSE i \in DOMAIN args.hstat :
        /\ args.hstat[i] # NVML_SUCCESS
        /\ \A j \in 0..(i - 1) : args.hstat[j] = NVML_SUCCESS

\* C1: when the handle lookup fails for an index i, GetAllGPUs stops the
\* enumeration at i (the native calls are the count query and the lookups for
\* 0..i, nothing else), returns a non-nil error and an empty device list; no
\* Device is constructed for any index, the ones below i included.
C1_LookupFailureReturnsNoDevices ==
    LookupFails =>
        LET i == FirstFailedLookup
            calls == CallEvents(trace)
        IN /\ ret.err # Nil
           /\ ret.devices = <<>>
           /\ held = <<>>
           /\ Fns(calls) = <<"nvmlDeviceGetCount">>
                           \o [j \in 1..(i + 1) |-> "nvmlDeviceGetHandleByIndex"]
           /\ \A j \in 1..(i + 1) : calls[j + 1].handle = j - 1
           /\ Count(trace, "malloc") = 0

C1_Witness ==
    /\ LookupFails
    /\ args.cnt.count = 3
    /\ args.hstat[0] = NVML_SUCCESS
    /\ args.hstat[1] # NVML_SUCCESS
    /\ ret.err = "nvmlDeviceGetHandleByIndex returns error"
    /\ ret.devices = <<>>

(* ------------------------------- C2 ------------------------------------ *)
\* C2: GetAllGPUs never returns an empty device list together with a nil
\* error; when no lookup failed and no device was produced, the error is
\* "No devices found".
C2_EmptyListHasError ==
    (Enumerated /\ ret.devices = <<>>) =>
        /\ ret.err # Nil
        /\ (~LookupFails => ret.err = "No devices found")

(* ------------------------------- C3 ------------------------------------ *)
ConstructionFails ==
    /\ Enumerated
    /\ \A i \in DOMAIN args.hstat : args.hstat[i] = NVML_SUCCESS
    /\ \E k \in DOMAIN args.envs : ~Constructs(args.envs[k])

FirstUnbuilt ==
    CHOOSE k \in DOMAIN args.envs :
        /\ ~Constructs(args.envs[k])
        /\ \A j \in 0..(k - 1) : Constructs(args.envs[j])

\* C3: when all handle lookups succeed and NewDevice first fails at handle k,
\* GetAllGPUs returns exactly the Devices of handles 0..k-1 in index order
\* with a nil error, and no identity accessor is called and no buffer is
\* allocated for a handle after k.
C3_ConstructionFailureTruncates ==
    ConstructionFails =>
        LET k == FirstUnbuilt
        IN /\ ret.err = Nil
           /\ Len(ret.devices) = k
           /\ \A i \in 1..k : ret.devices[i] = ExpectedDevice(i - 1, args.envs[i - 1])
           /\ held = ret.devices
           /\ \A j \in 1..Len(trace) :
                 (trace[j].f \in IdentityAccessors \/ trace[j].kind = "malloc")
                     => trace[j].handle <= k
           /\ \E j \in 1..Len(trace) :
                 trace[j].f \in IdentityAccessors /\ trace[j].handle = k

C3_Witness ==
    /\ ConstructionFails
    /\ args.cnt.count = 3
    /\ FirstUnbuilt = 1
    /\ Constructs(args.envs[2])
    /\ Len(ret.devices) = 1
    /\ ret.err = Nil

(* ------------------------------- C4 ------------------------------------ *)
\* C4: NewDevice queries UUID, then Name, then Index and stops at the first
\* that does not resolve, returning an error and no Device; it returns a
\* Device only when all three resolved, with exactly the resolved values.
C4_NewDeviceFailFast ==
    op = "NewDevice" =>
        LET env == args.env
            order == <<"nvmlDeviceGetUUID", "nvmlDeviceGetName", "nvmlDeviceGetIndex">>
            stage == IF ~TextResolves(env.UUID) THEN 1
                     ELSE IF ~TextResolves(env.Name) THEN 2 ELSE 3
        IN /\ Fns(CallEvents(trace)) = SubSeq(order, 1, stage)
           /\ Constructs(env) =>
                 ret.err = Nil /\ ret.dev = ExpectedDevice(args.cdevice, env)
           /\ ~Constructs(env) => ret.err # Nil /\ ret.dev = Nil

C4_Witness ==
    /\ op = "NewDevice"
    /\ TextResolves(args.env.UUID)
    /\ ~TextResolves(args.env.Name)
    /\ IntResolves(args.env.Index)
    /\ ret.dev = Nil
    /\ ret.err = "Cannot retrieve Name property"
    /\ Len(CallEvents(trace)) = 2

(* ------------------------------- C5 ------------------------------------ *)
\* C5: for a property name that is not a key of the registry, intProperty
\* and textProperty return "property not found" and cause no native event:
\* no accessor call, and for textProperty no malloc and no free.
C5_UnknownPropertyNotDispatched ==
    /\ (op = "intProperty" /\ args.property \notin DOMAIN intpropfunctions) =>
           ret.err = "property not found" /\ ret.val = 0 /\ trace = <<>>
    /\ (op = "textProperty" /\ args.property \notin DOMAIN textpropfunctions) =>
           ret.err = "property not found" /\ ret.val = <<>> /\ trace = <<>>

C5_Witness ==
    /\ op = "textProperty"
    /\ args.property = "Index"
    /\ args.nat.status = NVML_SUCCESS
    /\ ret.err = "property not found"
    /\ trace = <<>>

(* ------------------------------- C6 ------------------------------------ *)
Kinds(t) == [j \in 1..Len(t) |-> t[j].kind]

\* C6: after every call no buffer is outstanding and no free was invalid;
\* a textProperty call on a registered property allocates one buffer, calls
\* the accessor and frees the buffer once, whatever the accessor's outcome.
C6_BufferReleasedOnce ==
    /\ heap.outstanding = 0
    /\ ~heap.doubleFree
    /\ (op = "textProperty" /\ args.property \in DOMAIN textpropfunctions) =>
           Kinds(trace) = <<"malloc", "call", "free">>
    /\ op = "textProperty" => Count(trace, "malloc") = Count(trace, "free")

C6_Witness ==
    /\ op = "textProperty"
    /\ args.property = "Serial"
    /\ args.nat.status = "NVML_ERROR_NOT_SUPPORTED"
    /\ ret.err = "gettextProperty bridge returned error"
    /\ Kinds(trace) = <<"malloc", "call", "free">>
    /\ heap.outstanding = 0

(* ------------------------------- C7 ------------------------------------ *)
\* C7: a successful textProperty returns a non-empty string, free of
\* terminators and no longer than the property's declared buffer length,
\* whatever the accessor left in the buffer; when the accessor succeeds with
\* an empty or immediately terminated buffer, the result is the error
\* "textProperty returned empty string".
C7_TextResultBounded ==
    op = "textProperty" =>
        /\ ret.err = Nil =>
              /\ args.property \in DOMAIN textpropfunctions
              /\ Len(ret.val) > 0
              /\ Len(ret.val) <= textpropfunctions[args.property].length
              /\ \A j \in 1..Len(ret.val) : ret.val[j] # 0
        /\ (/\ args.property \in DOMAIN textpropfunctions
            /\ args.nat.status = NVML_SUCCESS
            /\ args.nat.buf[1] = 0) =>
              ret.err = "textProperty returned empty string" /\ ret.val = <<>>

C7_Witness ==
    /\ op = "textProperty"
    /\ args.property = "UUID"
    /\ args.nat.status = NVML_SUCCESS
    /\ \A j \in 1..Len(args.nat.buf) : args.nat.buf[j] # 0
    /\ ret.err = Nil
    /\ Len(ret.val) = textpropfunctions["UUID"].length

(* ------------------------------- C8 ------------------------------------ *)
IdentityMethods == {"UUID", "Name", "Index"}

\* The identity field of a Device that a method is named after.
Field(gpu, method) ==
    CASE method = "UUID" -> gpu.uuid
      [] method = "Name" -> gpu.name
      [] method = "Index" -> gpu.index

\* C8 as stated: UUID(), Name() and Index() of a constructed Device return
\* the values supplied at construction without invoking the native layer.
C8_AccessorsReturnCachedValues ==
    op \in IdentityMethods =>
        /\ ret.err = Nil
        /\ ret.val = Field(held[args.i], op)
        /\ Count(trace, "call") = 0

\* C8 amended: a Device constructed by NewDevice holds in its uuid, name and
\* index fields exactly the values supplied at construction; UUID(), Name()
\* and Index() do not read these fields: each call invokes the native
\* accessor of the Device's handle once and returns what that call supplies,
\* or an error when it does not resolve.
C8_AccessorsQueryNative ==
    /\ (op = "NewDevice" /\ ret.err = Nil) =>
           /\ ret.dev.uuid = Decoded(args.env.UUID.buf)
           /\ ret.dev.name = Decoded(args.env.Name.buf)
           /\ ret.dev.index = args.env.Index.value
           /\ held = <<ret.dev>>
    /\ op \in IdentityMethods =>
           LET gpu == held[args.i]
               calls == CallEvents(trace)
           IN /\ Len(calls) = 1
              /\ calls[1].handle = gpu.nvmldevice
              /\ calls[1].f = (IF op = "Index" THEN intpropfunctions[op]
                               ELSE textpropfunctions[op].f)
              /\ IF op = "Index"
                 THEN IF IntResolves(args.nat)
                      THEN ret.err = Nil /\ ret.val = args.nat.value
                      ELSE ret.err # Nil
                 ELSE IF TextResolves(args.nat)
                      THEN ret.err = Nil /\ ret.val = Decoded(args.nat.buf)
                      ELSE ret.err # Nil

C8_Witness ==
    /\ op = "Name"
    /\ held[args.i].name # <<>>
    /\ ret.err = Nil
    /\ ret.val # held[args.i].name
    /\ Count(trace, "call") = 1

(* ------------------------------- C9 ------------------------------------ *)
\* C9: when the native accessor of a registered property returns a
\* non-success status, intProperty and textProperty return the error that
\* carries the native message of that status (Device.Error of the status).
C9_ErrorCarriesNativeMessage ==
    /\ (/\ op = "intProperty"
        /\ args.property \in DOMAIN intpropfunctions
        /\ args.nat.status # NVML_SUCCESS) => ret.err = Error(args.nat.status)
    /\ (/\ op = "textProperty"
        /\ args.property \in DOMAIN textpropfunctions
        /\ args.nat.status # NVML_SUCCESS) => ret.err = Error(args.nat.status)

(* ------------------------------- C10 ----------------------------------- *)
\* C10: MultiGpuBoard returns true exactly when the native accessor succeeds
\* with a non-zero value, and false whenever it returns a non-nil error.
C10_MultiGpuBoardIsNonZero ==
    op = "MultiGpuBoard" =>
        /\ ret.val = (args.nat.status = NVML_SUCCESS /\ args.nat.value # 0)
        /\ ret.err # Nil => ret.val = FALSE

====
